---- MODULE Spec2Model ----
(***************************************************************************)
(* A model of rusty_coin: the chain (blockchain.rs), blocks (block.rs),    *)
(* transactions and P2PKH scripts (transaction.rs) and the wallet          *)
(* (wallet.rs).                                                            *)
(*                                                                         *)
(* SHA-256 and ECDSA are modelled as ideal primitives: a digest is the     *)
(* term <<"sha256", preimage>>, so two digests are equal exactly when      *)
(* their preimages are, and a signature is the term that names the signing *)
(* key and the signed message.  Decimal amounts are integers (one unit of  *)
(* the model is one coin).  A u32 is a pair of 16-bit limbs <<hi, lo>>.    *)
(* A call that panics returns the string "panic".                          *)
(***************************************************************************)
EXTENDS Integers, Sequences, FiniteSets, TLC

VARIABLES
    blockchain,   \* Blockchain.blockchain: the node's sequence of blocks
    tx_pool,      \* Blockchain.tx_pool: the node's mempool
    peer_chain,   \* a sequence of blocks received from a peer (a candidate chain)
    now,          \* SystemTime::now(), in seconds
    pending,      \* the block returned by the last generate_new_block, with its verdict
    last,         \* the last call and what it returned
    profile,      \* "debug": overflow checks on (panic); "release": wrapping arithmetic
    cancel,       \* whether the caller of the proof-of-work search has asked it to stop
    attempts      \* the iterations of the search made since the caller asked

vars == <<blockchain, tx_pool, peer_chain, now, pending, last, profile, cancel,
          attempts>>

-----------------------------------------------------------------------------
(* Bounds of the model *)

MaxLen == 3        \* blocks in a chain, genesis included
MaxTime == 1       \* the clock runs from 0 to MaxTime
MaxTxs == 1        \* transactions handed to generate_new_block besides the coinbase
MaxNonce == 8      \* nonces tried by the proof-of-work search of the model
MaxPool == 2       \* transactions in the mempool
MaxUtxos == 2      \* UTXOs, and receivers, handed to transfer_credits
MaxMsg == 3        \* bytes of a genesis message
MaxBody == 4       \* transactions of a body whose merkle root is computed
MaxHeight == 99    \* the largest block index whose reward is computed

-----------------------------------------------------------------------------
(* Sequences *)

RECURSIVE SumSeq(_)
SumSeq(s) == IF s = <<>> THEN 0 ELSE Head(s) + SumSeq(Tail(s))

RECURSIVE Flatten(_)
Flatten(ss) == IF ss = <<>> THEN <<>> ELSE Head(ss) \o Flatten(Tail(ss))

\* iter().skip(n)
Skip(s, n) == IF n >= Len(s) THEN <<>> ELSE SubSeq(s, n + 1, Len(s))

Last(s) == s[Len(s)]

-----------------------------------------------------------------------------
(* types.rs: HashValue, and the SHA-256 digest *)

ZeroHash == <<"zero", <<>>>>

FillHash(b) == <<"fill", <<b>>>>

Sha256(preimage) == <<"sha256", preimage>>

\* HashValue::sha256: the digest of the 32 bytes of a digest
HashSha256(h) == Sha256(<<"bytes", <<h>>>>)

-----------------------------------------------------------------------------
(* transaction.rs: byte blobs of scripts.  A blob is a sequence of atoms:  *)
(* a 32-byte digest, a 64-byte compact signature <<"sig", <<sk, msg>>>> or *)
(* a 33-byte serialized public key <<"pk", <<sk>>>>.                       *)

SigAtom(secret_key, msg) == <<"sig", <<secret_key, msg>>>>

PkAtom(secret_key) == <<"pk", <<secret_key>>>>

AtomLen(a) == CASE a[1] = "sig" -> 64
                [] a[1] = "pk" -> 33
                [] OTHER -> 32

BlobLen(blob) == SumSeq([i \in DOMAIN blob |-> AtomLen(blob[i])])

\* the number of leading atoms that make up the first `mid` bytes
SplitIndex(blob, mid) ==
    CHOOSE k \in 0..Len(blob) :
        /\ BlobLen(SubSeq(blob, 1, k)) >= mid
        /\ \A j \in 0..(k - 1) : BlobLen(SubSeq(blob, 1, j)) < mid

\* Option<Vec<u8>>
None == [some |-> FALSE, bytes |-> <<>>]

Some(bytes) == [some |-> TRUE, bytes |-> bytes]

Input(transaction_hash, previous_block_index, output_index, unlock_script) ==
    [prev_transaction_hash |-> transaction_hash,
     prev_block_index |-> previous_block_index,
     prev_output_index |-> output_index,
     length_of_unlock_script |-> BlobLen(unlock_script),
     unlock_script |-> unlock_script]

Output(amount, locking_script) ==
    [amount |-> amount,
     length_of_locking_script |-> BlobLen(locking_script),
     locking_script |-> locking_script]

Transaction(inputs, outputs, transaction_id, transaction_fee, additional_data) ==
    [inputs |-> inputs,
     outputs |-> outputs,
     transaction_id |-> transaction_id,
     transaction_fee |-> transaction_fee,
     additional_data |-> additional_data]

\* Transaction::sha256: the digest of inputs, outputs, the transaction_id
\* field as stored, the fee, and the additional data when present
transaction_sha256(tx) ==
    Sha256(<<"tx",
             [i \in DOMAIN tx.inputs |->
                 <<tx.inputs[i].prev_transaction_hash,
                   tx.inputs[i].prev_block_index,
                   tx.inputs[i].prev_output_index,
                   tx.inputs[i].length_of_unlock_script,
                   tx.inputs[i].unlock_script>>],
             [i \in DOMAIN tx.outputs |->
                 <<tx.outputs[i].amount,
                   tx.outputs[i].length_of_locking_script,
                   tx.outputs[i].locking_script>>],
             tx.transaction_id,
             tx.transaction_fee,
             IF tx.additional_data.some THEN tx.additional_data.bytes ELSE <<>> >>)

\* Transaction::update_digest
update_digest(tx) == [tx EXCEPT !.transaction_id = transaction_sha256(tx)]

is_coinbase_transaction(tx) == tx.inputs = <<>>

\* Transaction::get_output_by_index: Vec::get, None when out of range
HasOutput(tx, index) == index + 1 \in DOMAIN tx.outputs

get_output_by_index(tx, index) == tx.outputs[index + 1]

\* Signature::from_compact fails when r or s is not below the group order:
\* a signature parses, and so do 64 bytes of digests unless they are 0xff bytes
from_compact_ok(signature) ==
    \A i \in DOMAIN signature : signature[i] # FillHash(255)

\* PublicKey::from_slice
from_slice_ok(public_key) == Len(public_key) = 1 /\ public_key[1][1] = "pk"

\* Signature::verify
ecdsa_verify(signature, msg, public_key) ==
    /\ Len(signature) = 1
    /\ signature[1][1] = "sig"
    /\ signature[1] = SigAtom(public_key[1][2][1], msg)

\* Transaction::verify_scripts
verify_scripts(prev_transaction, unlocking_script, locking_script) ==
    IF BlobLen(unlocking_script) < 64
    THEN "panic"                                    \* split_at(64)
    ELSE LET k == SplitIndex(unlocking_script, 64)
             signature == SubSeq(unlocking_script, 1, k)
             public_key == SubSeq(unlocking_script, k + 1, Len(unlocking_script))
             msg == transaction_sha256(prev_transaction)
         IN  IF <<Sha256(<<"bytes", public_key>>)>> # locking_script THEN "false"
             ELSE IF ~from_compact_ok(signature) THEN "panic"   \* unwrap()
             ELSE IF ~from_slice_ok(public_key) THEN "false"
             ELSE IF ecdsa_verify(signature, msg, public_key) THEN "true"
             ELSE "false"

\* Input::generate_unlock_script
generate_unlock_script(previous_transaction, private_key, public_key) ==
    <<SigAtom(private_key, transaction_sha256(previous_transaction)), public_key>>

\* Output::generate_locking_script
generate_locking_script(public_key) == <<Sha256(<<"bytes", <<public_key>>>>)>>

-----------------------------------------------------------------------------
(* wallet.rs *)

\* wallet.rs: public_key_to_hash
public_key_to_hash(public_key) == Sha256(<<"bytes", <<public_key>>>>)

\* Wallet::new, with the keypair that generate_keypair draws
Wallet(secret_key) ==
    [public_key |-> PkAtom(secret_key),
     secret_key |-> secret_key,
     address |-> public_key_to_hash(PkAtom(secret_key))]

\* UTXO::new
UTXO(prev_tx, prev_block_index, prev_output_index) ==
    [prev_tx |-> prev_tx,
     prev_block_index |-> prev_block_index,
     prev_output_index |-> prev_output_index,
     prev_tx_hash |-> transaction_sha256(prev_tx)]

NoTx == Transaction(<<>>, <<>>, ZeroHash, 0, None)

\* a mutation of transfer_credits: the fee is not compared with zero
transfer_credits_unchecked_fee(wallet, utxos, receivers, extra_info) ==
    LET inputs == [i \in DOMAIN utxos |->
                     Input(utxos[i].prev_tx_hash,
                           utxos[i].prev_block_index,
                           utxos[i].prev_output_index,
                           generate_unlock_script(utxos[i].prev_tx,
                                                  wallet.secret_key,
                                                  wallet.public_key))]
        outputs == [i \in DOMAIN receivers |->
                      Output(receivers[i][1], <<receivers[i][2]>>)]
        good == \A i \in DOMAIN utxos :
                    HasOutput(utxos[i].prev_tx, utxos[i].prev_output_index)
        input_fee == SumSeq([i \in DOMAIN utxos |->
                       get_output_by_index(utxos[i].prev_tx,
                                           utxos[i].prev_output_index).amount])
        output_fee == SumSeq([i \in DOMAIN outputs |-> outputs[i].amount])
    IN  IF ~good THEN [err |-> "InvalidOutputIndex", tx |-> NoTx]
        ELSE [err |-> "none",
              tx |-> update_digest(Transaction(inputs, outputs, ZeroHash,
                                               input_fee - output_fee,
                                               extra_info))]

\* Wallet::transfer_credits; receivers are <<amount, address>> pairs
transfer_credits(wallet, utxos, receivers, extra_info) ==
    LET inputs == [i \in DOMAIN utxos |->
                     Input(utxos[i].prev_tx_hash,
                           utxos[i].prev_block_index,
                           utxos[i].prev_output_index,
                           generate_unlock_script(utxos[i].prev_tx,
                                                  wallet.secret_key,
                                                  wallet.public_key))]
        outputs == [i \in DOMAIN receivers |->
                      Output(receivers[i][1], <<receivers[i][2]>>)]
        good == \A i \in DOMAIN utxos :
                    HasOutput(utxos[i].prev_tx, utxos[i].prev_output_index)
        input_fee == SumSeq([i \in DOMAIN utxos |->
                       get_output_by_index(utxos[i].prev_tx,
                                           utxos[i].prev_output_index).amount])
        output_fee == SumSeq([i \in DOMAIN outputs |-> outputs[i].amount])
        tx_fee == input_fee - output_fee
    IN  IF ~good THEN [err |-> "InvalidOutputIndex", tx |-> NoTx]
        ELSE IF tx_fee < 0 THEN [err |-> "InvalidInputFee", tx |-> NoTx]
        ELSE [err |-> "none",
              tx |-> update_digest(Transaction(inputs, outputs, ZeroHash,
                                               tx_fee, extra_info))]

-----------------------------------------------------------------------------
(* block.rs *)

\* The last value of Block.nonce.  The nonce of the code is an i64 and ends at
\* 2^63 - 1; the integers of TLC end at 2^31 - 1, so the nonce of the model is
\* the signed integer of that width: it has the same two ends, one step apart
\* under wrapping, and the same residues modulo 4 at both of them.
NonceMax == 2147483647

NonceMin == -NonceMax - 1

\* u32::to_be_bytes of a difficulty <<hi, lo>>
to_be_bytes(difficulty) ==
    <<difficulty[1] \div 256, difficulty[1] % 256,
      difficulty[2] \div 256, difficulty[2] % 256>>

\* a mutation of target_threshold: the exponent is the first byte itself
target_threshold_unbiased(difficulty) ==
    LET n_bit_bytes == to_be_bytes(difficulty)
        exp == n_bit_bytes[1]
    IN  [j \in 1..32 |->
            IF j - 1 = 32 - exp - 2 - 1 THEN n_bit_bytes[2]
            ELSE IF j - 1 = 32 - exp - 1 - 1 THEN n_bit_bytes[3]
            ELSE IF j - 1 = 32 - exp - 0 - 1 THEN n_bit_bytes[4]
            ELSE 0]

\* Block::target_threshold; byte i of the code is element i + 1.  An index
\* below zero becomes a huge usize under `as usize` and matches no i.
target_threshold(difficulty) ==
    LET n_bit_bytes == to_be_bytes(difficulty)
        exp == n_bit_bytes[1] - 3
    IN  [j \in 1..32 |->
            IF j - 1 = 32 - exp - 2 - 1 THEN n_bit_bytes[2]
            ELSE IF j - 1 = 32 - exp - 1 - 1 THEN n_bit_bytes[3]
            ELSE IF j - 1 = 32 - exp - 0 - 1 THEN n_bit_bytes[4]
            ELSE 0]

\* Ord of Bytes<32>: lexicographic over the bytes
RECURSIVE BytesLeq(_, _)
BytesLeq(a, b) ==
    IF a = <<>> THEN TRUE
    ELSE IF Head(a) # Head(b) THEN Head(a) < Head(b)
    ELSE BytesLeq(Tail(a), Tail(b))

\* Block::sha256: the digest of the header; the body is left out
block_sha256(block) ==
    Sha256(<<"block", block.version, block.index, block.timestamp,
             block.prev_hash, block.merkle_root, block.difficulty, block.nonce>>)

\* The 32 bytes of the doubled header digest, as the order of HashValue sees
\* them.  SHA-256 itself is not computed: the bytes are a fixed function of
\* the header, one of four patterns chosen by the header's numbers.
PowBytes(block) ==
    LET m == ((block.nonce % 4) + block.index + 2 * block.timestamp
                 + block.difficulty[2]) % 4
        lead == CASE m = 0 -> <<255, 255, 255>>
                  [] m = 1 -> <<18, 52, 86>>
                  [] m = 2 -> <<0, 0, 19>>
                  [] OTHER -> <<0, 0, 1>>
    IN  [j \in 1..32 |-> IF j <= 3 THEN lead[j] ELSE 0]

\* valid_hash > target_threshold, for valid_hash = self.sha256().sha256()
MeetsTarget(block) == BytesLeq(PowBytes(block), target_threshold(block.difficulty))

\* a mutation of calc_merkle_root: a lone trailing digest is paired with itself
RECURSIVE MerkleDuplicate(_)
MerkleDuplicate(hashes) ==
    IF Len(hashes) <= 1 THEN hashes
    ELSE LET n == (Len(hashes) + 1) \div 2
             level == [c \in 1..n |->
                         IF 2 * c <= Len(hashes)
                         THEN Sha256(<<"bytes", <<hashes[2 * c - 1], hashes[2 * c]>>>>)
                         ELSE Sha256(<<"bytes", <<hashes[2 * c - 1],
                                                  hashes[2 * c - 1]>>>>)]
         IN  MerkleDuplicate(level)

calc_merkle_root_duplicating(data) ==
    IF data = <<>> THEN ZeroHash
    ELSE MerkleDuplicate([i \in DOMAIN data |-> transaction_sha256(data[i])])[1]

\* Block::calc_merkle_root
RECURSIVE MerkleReduce(_)
MerkleReduce(hashes) ==
    IF Len(hashes) <= 1 THEN hashes
    ELSE LET n == (Len(hashes) + 1) \div 2
             level == [c \in 1..n |->
                         IF 2 * c <= Len(hashes)
                         THEN Sha256(<<"bytes", <<hashes[2 * c - 1], hashes[2 * c]>>>>)
                         ELSE hashes[2 * c - 1]]
         IN  MerkleReduce(level)

calc_merkle_root(data) ==
    IF data = <<>> THEN ZeroHash
    ELSE MerkleReduce([i \in DOMAIN data |-> transaction_sha256(data[i])])[1]

\* a mutation of update_hash_and_nonce: the digest of the first attempt is
\* committed without comparing it with the target
update_hash_first_attempt(block) ==
    [block EXCEPT !.hash = HashSha256(block_sha256(block))]

\* Block::update_hash_and_nonce: the first nonce from the block's own whose
\* doubled digest meets the target; the search of the model gives up past
\* MaxNonce (the code keeps going)
RECURSIVE update_hash_and_nonce(_)
update_hash_and_nonce(block) ==
    IF MeetsTarget(block)
    THEN [block EXCEPT !.hash = HashSha256(block_sha256(block))]
    ELSE IF block.nonce >= MaxNonce THEN block
    ELSE update_hash_and_nonce([block EXCEPT !.nonce = block.nonce + 1])

\* whether the search ends within MaxNonce
Mineable(block) ==
    \E n \in block.nonce..MaxNonce : MeetsTarget([block EXCEPT !.nonce = n])

\* Block::get_tx_by_id: the first transaction with that id, if any
HasTx(block, tx_id) == \E i \in DOMAIN block.data : block.data[i].transaction_id = tx_id

get_tx_by_id(block, tx_id) ==
    block.data[CHOOSE i \in DOMAIN block.data :
                  /\ block.data[i].transaction_id = tx_id
                  /\ \A j \in 1..(i - 1) : block.data[j].transaction_id # tx_id]

-----------------------------------------------------------------------------
(* blockchain.rs: rewards, genesis, block generation *)

\* 10^18 in limbs of base 1000, most significant first
TenTo18 == <<1, 0, 0, 0, 0, 0, 0>>

\* floor(limbs / n), by long division
RECURSIVE DivLimbs(_, _, _)
DivLimbs(limbs, n, rem) ==
    IF limbs = <<>> THEN <<>>
    ELSE LET cur == rem * 1000 + Head(limbs)
         IN  <<cur \div n>> \o DivLimbs(Tail(limbs), n, cur % n)

IsZeroLimbs(limbs) == \A i \in DOMAIN limbs : limbs[i] = 0

\* the largest k with n^k <= limbs
RECURSIVE CountPowers(_, _)
CountPowers(limbs, n) ==
    LET q == DivLimbs(limbs, n, 0)
    IN  IF IsZeroLimbs(q) THEN 0 ELSE 1 + CountPowers(q, n)

\* Blockchain::reward_algorithm for index >= 1: floor(18 / log10(index + 1)),
\* which is the largest k with (index + 1)^k <= 10^18.  For index = 0 the
\* quotient is infinite and Decimal::from_f64(..).unwrap() panics.
RewardTable == [index \in 1..MaxHeight |-> CountPowers(TenTo18, index + 1)]

reward_algorithm(index) == RewardTable[index]

reward_algorithm_panics(index) == index = 0

\* Blockchain::inflated_tx_fee, in hundredths: tx_fee * 1.03
inflated_tx_fee_x100(tx_fee) == tx_fee * 103

Block(version, index, data, timestamp, prev_hash, hash, merkle_root, difficulty, nonce) ==
    [version |-> version, index |-> index, timestamp |-> timestamp,
     prev_hash |-> prev_hash, hash |-> hash, merkle_root |-> merkle_root,
     difficulty |-> difficulty, nonce |-> nonce, data |-> data]

GenesisVersion == "0.1v test"

\* a mutation of create_genesis_block: the hash is the doubled digest that
\* mined blocks carry
create_genesis_block_doubled(init_msg, init_time) ==
    LET genesis_transaction ==
            update_digest(Transaction(<<>>, <<>>, ZeroHash, 0, Some(init_msg)))
        b0 == Block(GenesisVersion, 0, <<genesis_transaction>>, init_time,
                    ZeroHash, ZeroHash, ZeroHash, <<0, 0>>, 0)
        b1 == [b0 EXCEPT !.merkle_root = calc_merkle_root(b0.data)]
    IN  [b1 EXCEPT !.hash = HashSha256(block_sha256(b1))]

\* Blockchain::create_genesis_block, at the time init_time
create_genesis_block(init_msg, init_time) ==
    LET genesis_transaction ==
            update_digest(Transaction(<<>>, <<>>, ZeroHash, 0, Some(init_msg)))
        b0 == Block(GenesisVersion, 0, <<genesis_transaction>>, init_time,
                    ZeroHash, ZeroHash, ZeroHash, <<0, 0>>, 0)
        b1 == [b0 EXCEPT !.merkle_root = calc_merkle_root(b0.data)]
    IN  [b1 EXCEPT !.hash = block_sha256(b1)]

\* Blockchain::create_coinbase_transaction; receivers are <<address, amount>>
create_coinbase_transaction(receivers) ==
    update_digest(Transaction(<<>>,
                              [i \in DOMAIN receivers |->
                                  Output(receivers[i][2], <<receivers[i][1]>>)],
                              ZeroHash, 0, None))

\* a mutation of generate_new_block_panics: the sum of the amounts is not
\* compared with the reward
generate_new_block_panics_on_negative(chain, receivers) ==
    \E i \in DOMAIN receivers : receivers[i][2] < 0

\* Blockchain::generate_new_block: the two panics
generate_new_block_panics(chain, receivers) ==
    \/ \E i \in DOMAIN receivers : receivers[i][2] < 0
    \/ SumSeq([i \in DOMAIN receivers |-> receivers[i][2]])
          > reward_algorithm(Last(chain).index + 1)

\* the block of generate_new_block before the proof-of-work search
assemble_block(chain, receivers, protocol_version, time_millis, difficulty, unpacked_transactions) ==
    LET prev_block == Last(chain)
        data == <<create_coinbase_transaction(receivers)>> \o unpacked_transactions
    IN  Block(protocol_version, prev_block.index + 1, data, time_millis,
              prev_block.hash, ZeroHash, calc_merkle_root(data), difficulty, 0)

\* Blockchain::generate_new_block, when it does not panic
generate_new_block(chain, receivers, protocol_version, time_millis, difficulty, unpacked_transactions) ==
    update_hash_and_nonce(assemble_block(chain, receivers, protocol_version,
                                         time_millis, difficulty,
                                         unpacked_transactions))

-----------------------------------------------------------------------------
(* blockchain.rs: verification.  A verdict is "true", "false" or "panic". *)

\* a && b: b is evaluated only when a is true
AndThen(a, b) == IF a = "true" THEN b ELSE a

Verdict(bool) == IF bool THEN "true" ELSE "false"

\* the fees of transactions.iter().skip(1)
AggregateTxFee(transactions) ==
    SumSeq([i \in DOMAIN Skip(transactions, 1) |->
               Skip(transactions, 1)[i].transaction_fee])

\* Blockchain::verify_coinbase_transaction
verify_coinbase_transaction(coinbase_tx, transactions, block_index) ==
    LET aggregate_tx_fee == AggregateTxFee(transactions)
        output_fee_sum == SumSeq([i \in DOMAIN coinbase_tx.outputs |->
                                     coinbase_tx.outputs[i].amount])
    IN  IF transaction_sha256(coinbase_tx) # coinbase_tx.transaction_id THEN "false"
        ELSE IF \E i \in DOMAIN coinbase_tx.outputs : coinbase_tx.outputs[i].amount < 0
        THEN "false"
        ELSE IF reward_algorithm_panics(block_index) THEN "panic"
        ELSE Verdict(100 * output_fee_sum
                        <= 100 * reward_algorithm(block_index)
                             + inflated_tx_fee_x100(aggregate_tx_fee))

\* the loop over the inputs of verify_regular_transaction, from input i on:
\* "true" when every input passes, else the verdict of the first that does not
RECURSIVE VerifyInputs(_, _, _)
VerifyInputs(chain, transaction, i) ==
    IF i > Len(transaction.inputs) THEN "true"
    ELSE LET input == transaction.inputs[i]
         IN  IF input.prev_block_index + 1 \notin DOMAIN chain THEN "false"
             ELSE LET block == chain[input.prev_block_index + 1]
                  IN  IF ~HasTx(block, input.prev_transaction_hash) THEN "false"
                      ELSE LET prev_tx == get_tx_by_id(block, input.prev_transaction_hash)
                           IN  IF ~HasOutput(prev_tx, input.prev_output_index) THEN "false"
                               ELSE AndThen(
                                      verify_scripts(
                                        prev_tx,
                                        get_output_by_index(prev_tx,
                                            input.prev_output_index).locking_script,
                                        input.unlock_script),
                                      VerifyInputs(chain, transaction, i + 1))

\* input_fee_sum after the loop, when every input passed
InputFeeSum(chain, transaction) ==
    SumSeq([i \in DOMAIN transaction.inputs |->
        get_output_by_index(
            get_tx_by_id(chain[transaction.inputs[i].prev_block_index + 1],
                         transaction.inputs[i].prev_transaction_hash),
            transaction.inputs[i].prev_output_index).amount])

OutputSum(transaction) ==
    SumSeq([i \in DOMAIN transaction.outputs |-> transaction.outputs[i].amount])

\* Blockchain::verify_regular_transaction
verify_regular_transaction(chain, transaction) ==
    AndThen(VerifyInputs(chain, transaction, 1),
        IF transaction.transaction_id # transaction_sha256(transaction) THEN "false"
        ELSE IF \E i \in DOMAIN transaction.outputs : transaction.outputs[i].amount < 0
        THEN "false"
        ELSE Verdict(transaction.transaction_fee
                        = InputFeeSum(chain, transaction) - OutputSum(transaction)))

\* Blockchain::verify_transactions: Iterator::all, from transaction i on
RECURSIVE VerifyAll(_, _, _, _)
VerifyAll(chain, transactions, block_index, i) ==
    IF i > Len(transactions) THEN "true"
    ELSE AndThen(
           IF is_coinbase_transaction(transactions[i])
           THEN verify_coinbase_transaction(transactions[i], transactions, block_index)
           ELSE verify_regular_transaction(chain, transactions[i]),
           VerifyAll(chain, transactions, block_index, i + 1))

verify_transactions(chain, transactions, block_index) ==
    VerifyAll(chain, transactions, block_index, 1)

verify_merkle_root(block) == Verdict(block.merkle_root = calc_merkle_root(block.data))

verify_difficulty(block, network_difficulty) ==
    Verdict(block.difficulty = network_difficulty)

verify_block_hash(block) ==
    Verdict(HashSha256(block_sha256(block)) = block.hash /\ MeetsTarget(block))

\* Blockchain::verify_prev_hash; block.index - 1 underflows for index 0
verify_prev_hash(chain, block) ==
    IF block.index = 0
    THEN IF profile = "debug" THEN "panic" ELSE "false"
    ELSE IF block.index \in DOMAIN chain
         THEN Verdict(chain[block.index].hash = block.prev_hash)
         ELSE "false"

\* the timestamps of self.blockchain.iter().rev(), at most ten of them
LastTimestamps(chain) ==
    LET k == IF Len(chain) < 10 THEN Len(chain) ELSE 10
    IN  [i \in 1..k |-> chain[Len(chain) - i + 1].timestamp]

\* Blockchain::verify_timestamp
verify_timestamp(chain, timestamp) ==
    LET count == Len(LastTimestamps(chain))
    IN  IF count = 0 THEN "panic"
        ELSE Verdict(/\ SumSeq(LastTimestamps(chain)) \div count <= timestamp
                     /\ timestamp <= now)

\* Blockchain::verify_block
verify_block(chain, block, network_difficulty) ==
    AndThen(verify_transactions(chain, block.data, block.index),
    AndThen(verify_merkle_root(block),
    AndThen(verify_difficulty(block, network_difficulty),
    AndThen(verify_block_hash(block),
    AndThen(verify_prev_hash(chain, block),
            verify_timestamp(chain, block.timestamp))))))

\* Blockchain::verify_chain, from block i on: every block is verified against
\* the whole chain with its own difficulty, and the first that fails ends it
RECURSIVE VerifyChainFrom(_, _)
VerifyChainFrom(chain, i) ==
    IF i > Len(chain) THEN "true"
    ELSE AndThen(verify_block(chain, chain[i], chain[i].difficulty),
                 VerifyChainFrom(chain, i + 1))

verify_chain(chain) == VerifyChainFrom(chain, 1)

-----------------------------------------------------------------------------
(* blockchain.rs: fork resolution *)

\* a + b in u32, and whether it overflowed
AddU32(a, b) ==
    LET lo == a[2] + b[2]
        hi == a[1] + b[1] + lo \div 65536
    IN  [val |-> <<hi % 65536, lo % 65536>>, overflow |-> hi >= 65536]

\* iter().map(|block| block.difficulty).sum::<u32>()
RECURSIVE SumU32(_, _)
SumU32(chain, acc) ==
    IF chain = <<>> THEN acc
    ELSE LET r == AddU32(acc.val, Head(chain).difficulty)
         IN  SumU32(Tail(chain), [val |-> r.val, overflow |-> acc.overflow \/ r.overflow])

chain_work(chain) == SumU32(chain, [val |-> <<0, 0>>, overflow |-> FALSE])

\* u32::cmp
CmpU32(a, b) ==
    IF a = b THEN "Equal"
    ELSE IF a[1] < b[1] \/ (a[1] = b[1] /\ a[2] < b[2]) THEN "Less"
    ELSE "Greater"

\* the zip loop: the number of leading positions with equal hashes
RECURSIVE fork_point(_, _)
fork_point(chain, candidate_chain) ==
    IF chain = <<>> \/ candidate_chain = <<>> THEN 0
    ELSE IF Head(chain).hash # Head(candidate_chain).hash THEN 0
    ELSE 1 + fork_point(Tail(chain), Tail(candidate_chain))

\* a mutation of Replayed: the loop does not skip the coinbase
Replayed_with_coinbase(blocks, fork) ==
    Flatten([i \in DOMAIN Skip(blocks, fork) |-> Skip(blocks, fork)[i].data])

\* the transactions the loops push to the pool: block.data.iter().skip(1) of
\* every block of blocks.iter().skip(fork)
Replayed(blocks, fork) ==
    Flatten([i \in DOMAIN Skip(blocks, fork) |-> Skip(Skip(blocks, fork)[i].data, 1)])

\* a mutation of different_genesis: the first blocks are not compared
different_genesis_ignored(chain, candidate_chain) == FALSE

\* a mutation of different_genesis: the check compares prev_hash
different_genesis_by_prev_hash(chain, candidate_chain) ==
    chain[1].prev_hash # candidate_chain[1].prev_hash

\* self.blockchain[0].hash != candidate_chain[0].hash
different_genesis(chain, candidate_chain) ==
    chain[1].hash # candidate_chain[1].hash

\* a mutation of len_cmp: the lengths are compared the other way round
len_cmp_swapped(chain, candidate_chain) ==
    IF Len(candidate_chain) < Len(chain) THEN "Less"
    ELSE IF Len(candidate_chain) > Len(chain) THEN "Greater"
    ELSE "Equal"

\* self.blockchain.len().cmp(&candidate_chain.len())
len_cmp(chain, candidate_chain) ==
    IF Len(chain) < Len(candidate_chain) THEN "Less"
    ELSE IF Len(chain) > Len(candidate_chain) THEN "Greater"
    ELSE "Equal"

\* Blockchain::resolve_conflicts: the chain and pool afterwards, and the result
resolve_conflicts(chain, pool, candidate_chain) ==
    LET fork == fork_point(chain, candidate_chain)
        keep == [blockchain |-> chain,
                 tx_pool |-> pool \o Replayed(candidate_chain, fork),
                 ret |-> "false"]
        \* self.blockchain is the candidate by the time the loop reads it
        replace == [blockchain |-> candidate_chain,
                    tx_pool |-> pool \o Replayed(candidate_chain, fork),
                    ret |-> "true"]
        same == [blockchain |-> chain, tx_pool |-> pool, ret |-> "false"]
        abort == [blockchain |-> chain, tx_pool |-> pool, ret |-> "panic"]
        current_chain_work == chain_work(chain)
        candidate_chain_work == chain_work(candidate_chain)
    IN  IF chain = <<>> \/ candidate_chain = <<>> THEN abort
        ELSE IF different_genesis(chain, candidate_chain) THEN same
        ELSE IF len_cmp(chain, candidate_chain) = "Less" THEN replace
        ELSE IF len_cmp(chain, candidate_chain) = "Greater" THEN keep
        ELSE IF profile = "debug" /\ current_chain_work.overflow THEN abort
        ELSE IF profile = "debug" /\ candidate_chain_work.overflow THEN abort
        ELSE CASE CmpU32(current_chain_work.val, candidate_chain_work.val) = "Greater"
                    -> keep
               [] CmpU32(current_chain_work.val, candidate_chain_work.val) = "Less"
                    -> replace
               [] OTHER -> keep

-----------------------------------------------------------------------------
(* The inputs handed to the operations *)

Alice == Wallet("alice")

Bob == Wallet("bob")

\* the bytes of two genesis messages
HelloWorld == <<104>>

OtherWorld == <<111>>

\* 0x1E123456 and 0x20123456, the difficulties of the tests, and two
\* difficulties whose targets are zero: 0x80000000 and 0xFFFFFFFF
Difficulty1E == <<7698, 13398>>

Difficulty20 == <<8210, 13398>>

Difficulty80 == <<32768, 0>>

DifficultyFF == <<65535, 65535>>

RECURSIVE SeqsUpTo(_, _)
SeqsUpTo(S, n) ==
    IF n = 0 THEN {<<>>}
    ELSE LET shorter == SeqsUpTo(S, n - 1)
         IN  shorter \cup {Append(q, x) : q \in shorter, x \in S}

\* a transaction without inputs put behind the coinbase, as tx1 and tx2 of
\* test_resolve_conflicts
FakeTx(b) == Transaction(<<>>, <<Output(50, <<ZeroHash>>)>>, FillHash(b), 0, None)

\* the coinbase outputs of the chain, as UTXO descriptors
CoinbaseUTXOs(chain) ==
    {UTXO(chain[i].data[1], i - 1, 0) :
        i \in {j \in DOMAIN chain : chain[j].data[1].outputs # <<>>}}

\* what wallet builds when it pays the whole of one coinbase output less fee
Transfers(wallet, chain, fee) ==
    {transfer_credits(wallet, <<u>>,
                      <<<<get_output_by_index(u.prev_tx, 0).amount - fee,
                          Bob.address>>>>, None).tx :
        u \in {v \in CoinbaseUTXOs(chain) :
                  get_output_by_index(v.prev_tx, 0).amount >= fee}}

\* the receivers of a coinbase: the whole reward of the next block to Alice
\* (as test_generate_new_block), one coin too many, or a negative amount
ReceiverChoices(chain) ==
    LET r == reward_algorithm(Last(chain).index + 1)
    IN  {<<<<Alice.address, r>>>>, <<<<Alice.address, r + 1>>>>,
         <<<<Alice.address, -1>>>>}

NoBlock == Block("", 0, <<>>, 0, ZeroHash, ZeroHash, ZeroHash, <<0, 0>>, 0)

NoPending == [some |-> FALSE, block |-> NoBlock, difficulty |-> <<0, 0>>,
              txs |-> <<>>, verdict |-> "none"]

Call(op, ret, chain, pool, arg) ==
    [op |-> op, ret |-> ret, chain |-> chain, pool |-> pool, arg |-> arg]

NoCall == Call("none", "none", <<>>, <<>>, <<>>)

-----------------------------------------------------------------------------
(* The node that mines and verifies *)

\* Blockchain::new("hello world") at time 0
Init ==
    /\ profile \in {"debug", "release"}
    /\ now = 0
    /\ blockchain = <<create_genesis_block(HelloWorld, 0)>>
    /\ tx_pool = <<>>
    /\ peer_chain = <<create_genesis_block(HelloWorld, 0)>>
    /\ pending = NoPending
    /\ last = NoCall
    /\ cancel = FALSE
    /\ attempts = 0

\* the clock advances
Tick ==
    /\ now < MaxTime
    /\ now' = now + 1
    /\ last' = NoCall
    /\ UNCHANGED <<blockchain, tx_pool, peer_chain, pending, profile, cancel, attempts>>

\* blockchain.generate_new_block(receivers, version, now, d, txs): the block
\* carries the time of the call, as in the tests
GenerateNewBlock ==
    /\ Len(blockchain) < MaxLen
    /\ \E receivers \in ReceiverChoices(blockchain),
          d \in {Difficulty1E, Difficulty20},
          txs \in SeqsUpTo({FakeTx(1)} \cup Transfers(Alice, blockchain, 1), MaxTxs) :
          IF generate_new_block_panics(blockchain, receivers)
          THEN /\ last' = Call("generate_new_block", "panic", blockchain, tx_pool,
                               receivers)
               /\ UNCHANGED pending
          ELSE /\ Mineable(assemble_block(blockchain, receivers, GenesisVersion,
                                          now, d, txs))
               /\ pending' = [some |-> TRUE,
                              block |-> generate_new_block(blockchain, receivers,
                                            GenesisVersion, now, d, txs),
                              difficulty |-> d,
                              txs |-> txs,
                              verdict |-> "none"]
               /\ last' = Call("generate_new_block", "ok", blockchain, tx_pool,
                               receivers)
    /\ UNCHANGED <<blockchain, tx_pool, peer_chain, now, profile, cancel, attempts>>

\* blockchain.verify_block(&block, d) of the generated block
VerifyBlock ==
    /\ pending.some
    /\ pending.verdict = "none"
    /\ LET v == verify_block(blockchain, pending.block, pending.difficulty)
       IN  /\ pending' = [pending EXCEPT !.verdict = v]
           /\ last' = Call("verify_block", v, blockchain, tx_pool, <<>>)
    /\ UNCHANGED <<blockchain, tx_pool, peer_chain, now, profile, cancel, attempts>>

\* blockchain.add_block(block)
AddBlock ==
    /\ pending.some
    /\ blockchain' = Append(blockchain, pending.block)
    /\ pending' = NoPending
    /\ last' = Call("add_block", "ok", blockchain, tx_pool, <<>>)
    /\ UNCHANGED <<tx_pool, peer_chain, now, profile, cancel, attempts>>

\* regular transactions a caller may hand to verify_transactions: what the
\* wallets build from the coinbase outputs of the chain, and the same with the
\* input naming the producing transaction by its transaction_id
ById(chain, tx) ==
    LET in1 == tx.inputs[1]
        prev_tx == chain[in1.prev_block_index + 1].data[1]
    IN  update_digest([tx EXCEPT
            !.inputs = <<Input(prev_tx.transaction_id, in1.prev_block_index,
                               in1.prev_output_index, in1.unlock_script)>>,
            !.transaction_id = ZeroHash])

\* what wallet builds when it names one coinbase output in two inputs and
\* pays the amount twice
DoubleTransfers(wallet, chain) ==
    {transfer_credits(wallet, <<u, u>>,
                      <<<<2 * get_output_by_index(u.prev_tx, 0).amount,
                          Bob.address>>>>, None).tx :
        u \in CoinbaseUTXOs(chain)}

RegularChoices(chain) ==
    LET built == Transfers(Alice, chain, 0) \cup Transfers(Alice, chain, 1)
                    \cup Transfers(Bob, chain, 0)
    IN  built \cup {ById(chain, tx) : tx \in built} \cup DoubleTransfers(Alice, chain)

\* blockchain.verify_transactions(&[tx], index of the next block)
VerifyTransactions ==
    /\ \E tx \in RegularChoices(blockchain) :
          last' = Call("verify_transactions",
                       verify_transactions(blockchain, <<tx>>, Len(blockchain)),
                       blockchain, tx_pool, <<tx>>)
    /\ UNCHANGED <<blockchain, tx_pool, peer_chain, now, pending, profile, cancel, attempts>>

\* Blockchain::verify_chain(&blockchain.blockchain)
VerifyChain ==
    /\ last' = Call("verify_chain", verify_chain(blockchain), blockchain, tx_pool, <<>>)
    /\ UNCHANGED <<blockchain, tx_pool, peer_chain, now, pending, profile, cancel, attempts>>

Next ==
    Tick \/ GenerateNewBlock \/ VerifyBlock \/ AddBlock \/ VerifyTransactions
        \/ VerifyChain

Spec == Init /\ [][Next]_vars

-----------------------------------------------------------------------------
(* The node that resolves forks against the chain of a peer *)

\* a block as a peer sends it: built on the peer's chain like a block of
\* generate_new_block, mined when its target can be met and else carrying the
\* digest of its header without proof of work
ForeignBlock(chain, difficulty, time, txs) ==
    LET b == assemble_block(chain,
                 <<<<Bob.address, reward_algorithm(Last(chain).index + 1)>>>>,
                 GenesisVersion, time, difficulty, txs)
    IN  IF Mineable(b) THEN update_hash_and_nonce(b)
        ELSE [b EXCEPT !.hash = HashSha256(block_sha256(b))]

\* the peer starts from a clone of the node's chain (as blockchain_copied of
\* test_resolve_conflicts) or from a genesis block of its own
InitFork ==
    /\ profile \in {"debug", "release"}
    /\ now = 0
    /\ blockchain = <<create_genesis_block(HelloWorld, 0)>>
    /\ tx_pool = <<>>
    /\ peer_chain \in {<<create_genesis_block(HelloWorld, 0)>>,
                       <<create_genesis_block(OtherWorld, 0)>>}
    /\ pending = NoPending
    /\ last = NoCall
    /\ cancel = FALSE
    /\ attempts = 0

\* blockchain.add_block(blockchain.generate_new_block(..)), one statement of
\* test_resolve_conflicts
MineAndAdd ==
    /\ Len(blockchain) < MaxLen
    /\ \E d \in {Difficulty1E, Difficulty20},
          txs \in SeqsUpTo({FakeTx(1)} \cup Transfers(Alice, blockchain, 1), MaxTxs) :
          LET receivers == <<<<Alice.address,
                               reward_algorithm(Last(blockchain).index + 1)>>>>
              b == assemble_block(blockchain, receivers, GenesisVersion, now, d, txs)
          IN  /\ ~generate_new_block_panics(blockchain, receivers)
              /\ Mineable(b)
              /\ blockchain' = Append(blockchain, update_hash_and_nonce(b))
    /\ last' = NoCall
    /\ UNCHANGED <<tx_pool, peer_chain, now, pending, profile, cancel, attempts>>

\* the peer's chain grows by a block
PeerBlock ==
    /\ Len(peer_chain) < MaxLen
    /\ \E d \in {Difficulty1E, Difficulty80, DifficultyFF},
          txs \in SeqsUpTo({FakeTx(2)}, MaxTxs) :
          peer_chain' = Append(peer_chain, ForeignBlock(peer_chain, d, now, txs))
    /\ last' = NoCall
    /\ UNCHANGED <<blockchain, tx_pool, now, pending, profile, cancel, attempts>>

\* the peer takes a copy of the node's chain
PeerClone ==
    /\ peer_chain # blockchain
    /\ peer_chain' = blockchain
    /\ last' = NoCall
    /\ UNCHANGED <<blockchain, tx_pool, now, pending, profile, cancel, attempts>>

\* blockchain.resolve_conflicts(&peer_chain)
ResolveConflicts ==
    LET r == resolve_conflicts(blockchain, tx_pool, peer_chain)
    IN  /\ Len(r.tx_pool) <= MaxPool
        /\ blockchain' = r.blockchain
        /\ tx_pool' = r.tx_pool
        /\ last' = Call("resolve_conflicts", r.ret, blockchain, tx_pool, peer_chain)
        /\ UNCHANGED <<peer_chain, now, pending, profile, cancel, attempts>>

NextFork == MineAndAdd \/ PeerBlock \/ PeerClone \/ ResolveConflicts

ForkSpec == InitFork /\ [][NextFork]_vars

-----------------------------------------------------------------------------
(* The node that takes blocks built by others: a block arrives as a value   *)
(* of struct Block (it is Deserialize), is verified against the chain and,  *)
(* when accepted, appended with add_block                                   *)

MaxClock == 2

\* a block built by hand and mined, as the block of test_mining: any index,
\* any body, prev_hash the hash of the block of the chain at index - 1
CraftedBlock(chain, index, data, timestamp, difficulty) ==
    Block(GenesisVersion, index, data, timestamp,
          IF index \in DOMAIN chain THEN chain[index].hash ELSE ZeroHash,
          ZeroHash, calc_merkle_root(data), difficulty, 0)

\* the bodies of received blocks: no transaction at all, or a coinbase
BodyChoices(chain) ==
    {<<>>,
     <<create_coinbase_transaction(
           <<<<Bob.address, reward_algorithm(Last(chain).index + 1)>>>>)>>}

\* the clock advances
Advance ==
    /\ now < MaxClock
    /\ now' = now + 1
    /\ last' = NoCall
    /\ UNCHANGED <<blockchain, tx_pool, peer_chain, pending, profile, cancel, attempts>>

\* if blockchain.verify_block(&block, d) { blockchain.add_block(block) } of a
\* received block
ReceiveBlock ==
    /\ Len(blockchain) < MaxLen
    /\ \E index \in 0..Len(blockchain),
          data \in BodyChoices(blockchain),
          timestamp \in 0..MaxClock,
          d \in {Difficulty1E, Difficulty20} :
          LET b == CraftedBlock(blockchain, index, data, timestamp, d)
              mined == update_hash_and_nonce(b)
              v == verify_block(blockchain, mined, d)
          IN  /\ Mineable(b)
              /\ blockchain' = IF v = "true" THEN Append(blockchain, mined)
                               ELSE blockchain
              /\ last' = Call("receive_block", v, blockchain, tx_pool, <<mined>>)
    /\ UNCHANGED <<tx_pool, peer_chain, now, pending, profile, cancel, attempts>>

NextRelay == Advance \/ ReceiveBlock

RelaySpec == Init /\ [][NextRelay]_vars

-----------------------------------------------------------------------------
(* The proof-of-work search of generate_new_block, one iteration of the     *)
(* loop of update_hash_and_nonce at a time, and a caller that wants it to   *)
(* stop.  pending.block is `self` of update_hash_and_nonce and              *)
(* pending.verdict says whether the loop is running.                        *)

\* generate_new_block up to the call of update_hash_and_nonce
StartMining ==
    /\ pending.verdict # "mining"
    /\ \E d \in {Difficulty1E, Difficulty20, Difficulty80},
          txs \in SeqsUpTo({FakeTx(1)}, MaxTxs) :
          pending' = [some |-> FALSE,
                      block |-> assemble_block(blockchain,
                                    <<<<Alice.address,
                                        reward_algorithm(Last(blockchain).index + 1)>>>>,
                                    GenesisVersion, now, d, txs),
                      difficulty |-> d,
                      txs |-> txs,
                      verdict |-> "mining"]
    /\ cancel' = FALSE
    /\ attempts' = 0
    /\ last' = NoCall
    /\ UNCHANGED <<blockchain, tx_pool, peer_chain, now, profile>>

\* one test of `while valid_hash > target_threshold`: the body of the loop
\* when the test holds, `self.hash = valid_hash` when it does not
MineStep ==
    /\ pending.verdict = "mining"
    /\ IF ~MeetsTarget(pending.block)
       THEN /\ pending.block.nonce < MaxNonce
            /\ pending' = [pending EXCEPT !.block.nonce = pending.block.nonce + 1]
            /\ attempts' = IF cancel THEN attempts + 1 ELSE attempts
       ELSE /\ pending' = [pending EXCEPT
                              !.block.hash = HashSha256(block_sha256(pending.block)),
                              !.some = TRUE,
                              !.verdict = "none"]
            /\ UNCHANGED attempts
    /\ last' = NoCall
    /\ UNCHANGED <<blockchain, tx_pool, peer_chain, now, profile, cancel>>

\* the caller asks the running search to stop
RequestCancel ==
    /\ pending.verdict = "mining"
    /\ ~cancel
    /\ cancel' = TRUE
    /\ UNCHANGED <<blockchain, tx_pool, peer_chain, now, pending, last, profile,
                   attempts>>

NextMining == Advance \/ StartMining \/ MineStep \/ RequestCancel

MiningSpec == Init /\ [][NextMining]_vars

-----------------------------------------------------------------------------
(* Transaction::verify_scripts applied to script pairs, as test_scripts     *)
(* applies it                                                               *)

\* producing transactions: the genesis transaction, a coinbase, tx1 of
\* test_resolve_conflicts
ProducingTransactions ==
    {blockchain[1].data[1],
     create_coinbase_transaction(<<<<Alice.address, reward_algorithm(1)>>>>),
     FakeTx(1)}

\* unlock scripts for wallet w and producing transaction T: the generated
\* one; the signature replaced by that of another key, of another message, by
\* 64 zero bytes or by 64 bytes 0xff; the public key replaced; scripts of 0,
\* 32, 33 and 64 bytes
UnlockChoices(T, w, other) ==
    LET honest == generate_unlock_script(T, w.secret_key, w.public_key)
    IN  {honest,
         <<SigAtom(other.secret_key, transaction_sha256(T)), w.public_key>>,
         <<SigAtom(w.secret_key, transaction_sha256(update_digest(T))), w.public_key>>,
         <<ZeroHash, ZeroHash, w.public_key>>,
         <<FillHash(255), FillHash(255), w.public_key>>,
         <<honest[1], other.public_key>>,
         <<>>,
         <<ZeroHash>>,
         <<w.public_key>>,
         <<honest[1]>>}

\* locking scripts: that of w, that of the other wallet, the digest of no
\* byte at all, and an empty script
LockChoices(w, other) ==
    {generate_locking_script(w.public_key),
     generate_locking_script(other.public_key),
     <<Sha256(<<"bytes", <<>>>>)>>,
     <<>>}

\* Transaction::verify_scripts(&T, &unlocking_script, &locking_script)
VerifyScripts ==
    /\ \E T \in ProducingTransactions, w \in {Alice, Bob}, other \in {Alice, Bob} :
          /\ other # w
          /\ \E unlocking_script \in UnlockChoices(T, w, other),
                locking_script \in LockChoices(w, other) :
                last' = Call("verify_scripts",
                             verify_scripts(T, unlocking_script, locking_script),
                             blockchain, tx_pool,
                             [prev_transaction |-> T,
                              unlocking_script |-> unlocking_script,
                              locking_script |-> locking_script])
    /\ UNCHANGED <<blockchain, tx_pool, peer_chain, now, pending, profile, cancel,
                   attempts>>

NextScripts == Advance \/ VerifyScripts

ScriptSpec == Init /\ [][NextScripts]_vars

-----------------------------------------------------------------------------
(* Properties of block generation and of transaction digests *)

\* the lower and upper bound of the timestamp rule, for the chain as it is
TimestampInRange(chain, timestamp) ==
    /\ SumSeq([i \in DOMAIN chain |-> chain[i].timestamp]) \div Len(chain) <= timestamp
    /\ timestamp <= now

\* C1: a block that generate_new_block returned for the tip of the chain,
\* given valid transactions and a timestamp between the average of the chain
\* and now, is accepted by verify_block with the difficulty it was mined for.
C1_GeneratedBlockVerifies ==
    (/\ last.op = "verify_block"
     /\ pending.block.index = Len(blockchain)
     /\ pending.block.prev_hash = Last(blockchain).hash
     /\ verify_transactions(blockchain, pending.txs, pending.block.index) = "true"
     /\ TimestampInRange(blockchain, pending.block.timestamp))
        => last.ret = "true"

\* the transactions of the chain that update_digest finalized: the genesis
\* transaction and the coinbase of every generated block
FinalizedInChain == {blockchain[i].data[1] : i \in DOMAIN blockchain}

\* C2: every finalized transaction (the genesis transaction, a generated
\* coinbase, a transaction returned by transfer_credits) carries as its
\* transaction_id the sha256 of the transaction as it is stored.
C2_FinalizedDigestMatches ==
    \A T \in FinalizedInChain \cup Transfers(Alice, blockchain, 0) :
        T.transaction_id = transaction_sha256(T)

-----------------------------------------------------------------------------
(* Properties of fork resolution.  After a call of resolve_conflicts,       *)
(* last.chain and last.pool are the chain C and the mempool before the call *)
(* and last.arg is the candidate D.                                         *)

Resolved == last.op = "resolve_conflicts"

Min(a, b) == IF a < b THEN a ELSE b

\* the length of the longest common prefix of C and D, compared by hash
CommonPrefix(C, D) ==
    CHOOSE f \in 0..Min(Len(C), Len(D)) :
        /\ \A i \in 1..f : C[i].hash = D[i].hash
        /\ f < Min(Len(C), Len(D)) => C[f + 1].hash # D[f + 1].hash

\* the transactions at positions >= 1 of the blocks at positions >= i - 1
RECURSIVE NonCoinbaseFrom(_, _)
NonCoinbaseFrom(blocks, i) ==
    IF i > Len(blocks) THEN <<>>
    ELSE (IF blocks[i].data = <<>> THEN <<>> ELSE Tail(blocks[i].data))
             \o NonCoinbaseFrom(blocks, i + 1)

Range(s) == {s[i] : i \in DOMAIN s}

\* the sum of the difficulties of a chain, without a width: <<multiples of
\* 65536, rest>>
WorkSum(chain) ==
    LET hi == SumSeq([i \in DOMAIN chain |-> chain[i].difficulty[1]])
        lo == SumSeq([i \in DOMAIN chain |-> chain[i].difficulty[2]])
    IN  <<hi + lo \div 65536, lo % 65536>>

WorkGreater(a, b) == a[1] > b[1] \/ (a[1] = b[1] /\ a[2] > b[2])

SameGenesis == last.chain[1].hash = last.arg[1].hash

\* C3: when the candidate is adopted, every non-coinbase transaction of the
\* abandoned blocks of the former chain, those from the fork point on, is in
\* the mempool afterwards.
C3_AbandonedTransactionsReplayed ==
    (Resolved /\ last.ret = "true")
        => Range(NonCoinbaseFrom(last.chain, CommonPrefix(last.chain, last.arg) + 1))
              \subseteq Range(tx_pool)

\* C4: a candidate with the same genesis hash that is longer than the chain
\* replaces it: the call returns true and the chain is the candidate.
C4_LongerCandidateReplaces ==
    (Resolved /\ SameGenesis /\ Len(last.arg) > Len(last.chain))
        => (last.ret = "true" /\ blockchain = last.arg)

\* C4 happens: a longer candidate was adopted although the u32 sum of its
\* difficulties overflows
C4_Witness ==
    /\ Resolved /\ SameGenesis /\ Len(last.arg) > Len(last.chain)
    /\ chain_work(last.arg).overflow
    /\ blockchain = last.arg

\* C5: between chains of equal length with the same genesis hash, the
\* candidate replaces the chain exactly when the sum of its difficulties is
\* greater, whatever the size of the sums.
C5_EqualLengthDecidedBySum ==
    (Resolved /\ SameGenesis /\ Len(last.arg) = Len(last.chain))
        => /\ last.ret = "true" <=> WorkGreater(WorkSum(last.arg), WorkSum(last.chain))
           /\ last.ret \in {"true", "false"}
           /\ blockchain = IF last.ret = "true" THEN last.arg ELSE last.chain

\* C6: a candidate that is shorter, or as long with a sum of difficulties not
\* greater than the chain's, is rejected: the call returns false and the
\* blocks of the chain are as before.
C6_WeakerCandidateRejected ==
    (/\ Resolved
     /\ \/ Len(last.arg) < Len(last.chain)
        \/ /\ Len(last.arg) = Len(last.chain)
           /\ ~WorkGreater(WorkSum(last.arg), WorkSum(last.chain)))
        => (last.ret = "false" /\ blockchain = last.chain)

\* C7: when a candidate with the same genesis hash is rejected, the mempool is
\* the mempool before the call followed by the non-coinbase transactions of
\* the candidate's blocks from the fork point on, in chain order.
C7_RejectedSuffixReplayed ==
    (Resolved /\ SameGenesis /\ last.ret = "false")
        => tx_pool = last.pool
                \o NonCoinbaseFrom(last.arg, CommonPrefix(last.chain, last.arg) + 1)

\* C7 happens: a rejected candidate shares a block with a non-coinbase
\* transaction with the chain and has one of its own after the fork point
C7_Witness ==
    /\ Resolved /\ SameGenesis /\ last.ret = "false"
    /\ CommonPrefix(last.chain, last.arg) >= 2
    /\ NonCoinbaseFrom(SubSeq(last.arg, 1, CommonPrefix(last.chain, last.arg)), 1) # <<>>
    /\ NonCoinbaseFrom(last.arg, CommonPrefix(last.chain, last.arg) + 1) # <<>>
    /\ tx_pool # last.pool

\* C8: a candidate whose first block has another hash than the genesis block
\* of the chain is rejected, and neither the chain nor the mempool changes.
C8_DifferentGenesisRejected ==
    (Resolved /\ ~SameGenesis)
        => (last.ret = "false" /\ blockchain = last.chain /\ tx_pool = last.pool)

\* C8 happens: the rejected candidate is longer than the chain, has the
\* greater sum of difficulties and carries non-coinbase transactions
C8_Witness ==
    /\ Resolved /\ ~SameGenesis /\ last.ret = "false"
    /\ Len(last.arg) > Len(last.chain)
    /\ WorkGreater(WorkSum(last.arg), WorkSum(last.chain))
    /\ NonCoinbaseFrom(last.arg, 1) # <<>>

-----------------------------------------------------------------------------
(* Properties of the verification of regular transactions *)

\* C10: a transaction that transfer_credits built from a coinbase output of
\* the chain locked to the wallet is accepted, and one whose unlock script was
\* produced with another wallet's key is rejected with false.
C10_UnlockScriptsChecked ==
    (last.op = "verify_transactions")
        => /\ last.arg[1] \in Transfers(Alice, blockchain, 0)
                                 \cup Transfers(Alice, blockchain, 1)
                => last.ret = "true"
           /\ last.arg[1] \in Transfers(Bob, blockchain, 0) => last.ret = "false"

-----------------------------------------------------------------------------
(* Properties of the body and the position of accepted blocks *)

\* the first transaction is a coinbase and no other transaction is one
CoinbaseFirstAndOnly(data) ==
    /\ data # <<>>
    /\ is_coinbase_transaction(data[1])
    /\ \A i \in 2..Len(data) : ~is_coinbase_transaction(data[i])

\* C12: in every block that verify_block accepted, and in every block that
\* generate_new_block returned for regular transactions, the first
\* transaction is the coinbase and it is the only one without inputs.
C12_CoinbaseFirstAndOnly ==
    /\ (last.op = "receive_block" /\ last.ret = "true")
          => CoinbaseFirstAndOnly(last.arg[1].data)
    /\ (last.op = "generate_new_block" /\ last.ret = "ok"
           /\ \A i \in DOMAIN pending.txs : ~is_coinbase_transaction(pending.txs[i]))
          => CoinbaseFirstAndOnly(pending.block.data)

\* C15: the block at position i of the chain has index i: indices start at 0
\* and increase by exactly 1.
C15_IndicesIncreaseByOne ==
    \A i \in DOMAIN blockchain : blockchain[i].index = i - 1

\* the checks of verify_block that come before the timestamp check
BeforeTimestampCheck(chain, block, network_difficulty) ==
    AndThen(verify_transactions(chain, block.data, block.index),
    AndThen(verify_merkle_root(block),
    AndThen(verify_difficulty(block, network_difficulty),
    AndThen(verify_block_hash(block),
            verify_prev_hash(chain, block)))))

\* the timestamps of up to 10 blocks of the chain that precede position
\* block.index, or of all of them when fewer precede it
PrecedingTimestamps(chain, block) ==
    LET first == IF block.index > 10 THEN block.index - 9 ELSE 1
    IN  [i \in 1..(block.index - first + 1) |-> chain[first + i - 1].timestamp]

\* C16: once the other checks of verify_block passed, the block is accepted
\* exactly when its timestamp is between the integer average of the
\* timestamps of the blocks that precede it and now.
C16_TimestampBetweenAverageAndNow ==
    (/\ last.op = "receive_block"
     /\ last.arg[1].index >= 1
     /\ BeforeTimestampCheck(last.chain, last.arg[1], last.arg[1].difficulty) = "true")
        => (last.ret = "true"
              <=> /\ SumSeq(PrecedingTimestamps(last.chain, last.arg[1]))
                        \div Len(PrecedingTimestamps(last.chain, last.arg[1]))
                        <= last.arg[1].timestamp
                  /\ last.arg[1].timestamp <= now)

-----------------------------------------------------------------------------
(* Properties of block generation *)

\* C13: the hash of a block that generate_new_block returned is the doubled
\* SHA-256 of its header with the nonce it carries, and it is not above the
\* target of its difficulty.
C13_ProofOfWorkSound ==
    pending.some
        => /\ pending.block.hash = HashSha256(block_sha256(pending.block))
           /\ BytesLeq(PowBytes(pending.block),
                       target_threshold(pending.block.difficulty))

\* C13 happens: the search went past the first nonce
C13_Witness ==
    /\ pending.some
    /\ pending.block.nonce >= 2
    /\ ~MeetsTarget([pending.block EXCEPT !.nonce = 0])
    /\ pending.block.hash = HashSha256(block_sha256(pending.block))

\* C14: once the caller has asked the proof-of-work search to stop, the loop
\* makes at most one more iteration, and a hash it committed meets the target.
C14_MiningCancellable ==
    /\ attempts <= 1
    /\ pending.some => MeetsTarget(pending.block)

-----------------------------------------------------------------------------
(* Properties of verify_scripts.  After a call, last.arg holds its three    *)
(* arguments.                                                               *)

\* unlocking_script is the script generated for T with the keys of w, but for
\* its signature part or its public-key part, which holds another value of
\* the same length
PartReplaced(unlocking_script, T, w) ==
    LET honest == generate_unlock_script(T, w.secret_key, w.public_key)
    IN  /\ unlocking_script # honest
        /\ unlocking_script # <<>>
        /\ \/ /\ Last(unlocking_script) = honest[2]
              /\ BlobLen(SubSeq(unlocking_script, 1, Len(unlocking_script) - 1)) = 64
           \/ /\ Head(unlocking_script) = honest[1]
              /\ BlobLen(Tail(unlocking_script)) = 33

\* C17: verify_scripts accepts the unlock script generated for T with a key
\* pair against the locking script of its public key, and returns false when
\* the signature part or the public-key part holds another value.
C17_ScriptRoundTrip ==
    (last.op = "verify_scripts")
        => \A w \in {Alice, Bob} :
              (last.arg.locking_script = generate_locking_script(w.public_key))
                  => /\ (last.arg.unlocking_script
                            = generate_unlock_script(last.arg.prev_transaction,
                                                     w.secret_key, w.public_key))
                           => last.ret = "true"
                     /\ PartReplaced(last.arg.unlocking_script,
                                     last.arg.prev_transaction, w)
                           => last.ret = "false"

\* C18: verify_scripts returns a boolean for every pair of scripts, and false
\* for an unlock script that is not 64 bytes of signature and a public key.
C18_VerifyScriptsTotal ==
    (last.op = "verify_scripts")
        => /\ last.ret \in {"true", "false"}
           /\ (\/ BlobLen(last.arg.unlocking_script) < 64
               \/ ~from_compact_ok(SubSeq(last.arg.unlocking_script, 1,
                                          SplitIndex(last.arg.unlocking_script, 64))))
                 => last.ret = "false"

-----------------------------------------------------------------------------
(* Properties of the mempool *)

\* tx is a transaction of some block of the chain
Confirmed(tx) ==
    \E i \in DOMAIN blockchain : \E j \in DOMAIN blockchain[i].data :
        blockchain[i].data[j] = tx

\* C19: every transaction of the mempool has inputs and is in no block of the
\* chain.
C19_MempoolRegularUnconfirmed ==
    \A k \in DOMAIN tx_pool :
        /\ ~is_coinbase_transaction(tx_pool[k])
        /\ ~Confirmed(tx_pool[k])

-----------------------------------------------------------------------------
(* Properties of generate_new_block.  After a call, last.chain and          *)
(* last.pool are the chain and the mempool before it, last.arg the          *)
(* receivers, and pending holds the block it returned with the              *)
(* transactions it was given.                                               *)

\* a receiver amount is negative or the amounts exceed the reward of the
\* block after the tip
ReceiversRefused(chain, receivers) ==
    \/ \E i \in DOMAIN receivers : receivers[i][2] < 0
    \/ SumSeq([i \in DOMAIN receivers |-> receivers[i][2]])
          > reward_algorithm(Last(chain).index + 1)

\* tx has no inputs, pays exactly the receivers, and its transaction_id is
\* the digest taken while the id was still zero
FinalizedCoinbaseOf(tx, receivers) ==
    /\ tx.inputs = <<>>
    /\ Len(tx.outputs) = Len(receivers)
    /\ \A i \in DOMAIN receivers :
          /\ tx.outputs[i].amount = receivers[i][2]
          /\ tx.outputs[i].locking_script = <<receivers[i][1]>>
    /\ tx.transaction_id
          = transaction_sha256([tx EXCEPT !.transaction_id = ZeroHash])

GeneratedAsAsked ==
    (last.op = "generate_new_block")
        => /\ blockchain = last.chain
           /\ tx_pool = last.pool
           /\ last.ret = "panic" <=> ReceiversRefused(last.chain, last.arg)
           /\ last.ret # "panic"
                 => /\ pending.some
                    /\ pending.block.index = Last(last.chain).index + 1
                    /\ pending.block.prev_hash = Last(last.chain).hash
                    /\ pending.block.data # <<>>
                    /\ FinalizedCoinbaseOf(pending.block.data[1], last.arg)
                    /\ Tail(pending.block.data) = pending.txs

-----------------------------------------------------------------------------
(* The wallet that builds transfers *)

\* producing transactions of the wallet: a coinbase of one output of 5 coins
\* and a transaction of two outputs of 3 and 4 coins
OneOutputTx == create_coinbase_transaction(<<<<Alice.address, 5>>>>)

TwoOutputTx ==
    create_coinbase_transaction(<<<<Alice.address, 3>>, <<Alice.address, 4>>>>)

\* UTXO::new for every output of the two, and for the first index past them
UTXOChoices ==
    {UTXO(OneOutputTx, 1, i) : i \in 0..1} \cup {UTXO(TwoOutputTx, 2, i) : i \in 0..2}

\* (amount, address) pairs
TransferReceivers == {<<4, Bob.address>>, <<9, Bob.address>>, <<2, Alice.address>>}

\* wallet.transfer_credits(utxos, receivers, None) of Alice's wallet
TransferCredits ==
    /\ \E utxos \in SeqsUpTo(UTXOChoices, MaxUtxos),
          receivers \in SeqsUpTo(TransferReceivers, MaxUtxos) :
          LET r == transfer_credits(Alice, utxos, receivers, None)
          IN  last' = Call("transfer_credits", r.err, blockchain, tx_pool,
                           [utxos |-> utxos, receivers |-> receivers, tx |-> r.tx])
    /\ UNCHANGED <<blockchain, tx_pool, peer_chain, now, pending, profile, cancel,
                   attempts>>

NextWallet == TransferCredits

WalletSpec == Init /\ [][NextWallet]_vars

-----------------------------------------------------------------------------
(* Properties of the wallet *)

\* the amount of the output that UTXO u names
UtxoAmount(u) == get_output_by_index(u.prev_tx, u.prev_output_index).amount

\* C21: transfer_credits fails with InvalidOutputIndex when a UTXO names an
\* output its producing transaction does not have, fails with InvalidInputFee
\* when the inputs are worth less than the receivers get, and otherwise returns
\* a transaction with one input per UTXO in order, one output per receiver in
\* order and the non-negative fee inputs minus outputs
C21_TransferCreditsContract ==
    last.op = "transfer_credits" =>
        LET utxos == last.arg.utxos
            receivers == last.arg.receivers
            tx == last.arg.tx
            bad == \E i \in DOMAIN utxos :
                      ~HasOutput(utxos[i].prev_tx, utxos[i].prev_output_index)
            paid == SumSeq([i \in DOMAIN receivers |-> receivers[i][1]])
        IN  IF bad THEN last.ret = "InvalidOutputIndex"
            ELSE LET worth == SumSeq([i \in DOMAIN utxos |-> UtxoAmount(utxos[i])])
                 IN  IF worth - paid < 0 THEN last.ret = "InvalidInputFee"
                     ELSE /\ last.ret = "none"
                          /\ Len(tx.inputs) = Len(utxos)
                          /\ \A i \in DOMAIN utxos :
                                /\ tx.inputs[i].prev_transaction_hash
                                      = transaction_sha256(utxos[i].prev_tx)
                                /\ tx.inputs[i].prev_block_index
                                      = utxos[i].prev_block_index
                                /\ tx.inputs[i].prev_output_index
                                      = utxos[i].prev_output_index
                          /\ Len(tx.outputs) = Len(receivers)
                          /\ \A i \in DOMAIN receivers :
                                /\ tx.outputs[i].amount = receivers[i][1]
                                /\ tx.outputs[i].locking_script = <<receivers[i][2]>>
                          /\ tx.transaction_fee = worth - paid
                          /\ tx.transaction_fee >= 0

\* two UTXOs of different transactions are spent to two receivers for a fee
C21_Witness ==
    /\ last.op = "transfer_credits"
    /\ last.ret = "none"
    /\ Len(last.arg.utxos) = 2
    /\ last.arg.utxos[1].prev_tx # last.arg.utxos[2].prev_tx
    /\ Len(last.arg.receivers) = 2
    /\ last.arg.receivers[1] # last.arg.receivers[2]
    /\ last.arg.tx.transaction_fee > 0

-----------------------------------------------------------------------------
(* The construction of a chain *)

\* the bytes of genesis_msg
GenesisMessages == SeqsUpTo({104, 111}, MaxMsg)

\* Blockchain::new(genesis_msg) at the time now
New ==
    /\ \E genesis_msg \in GenesisMessages :
          /\ blockchain' = <<create_genesis_block(genesis_msg, now)>>
          /\ last' = Call("new", "ok", <<>>, <<>>, genesis_msg)
    /\ tx_pool' = <<>>
    /\ UNCHANGED <<peer_chain, now, pending, profile, cancel, attempts>>

NextGenesis == Advance \/ New

GenesisSpec == Init /\ [][NextGenesis]_vars

\* C22: Blockchain::new(msg) yields a chain of exactly one block, with index 0,
\* difficulty 0, a zero prev_hash, nonce 0 and a single transaction that has no
\* inputs, no outputs and the bytes of msg as additional data; its merkle_root
\* is calc_merkle_root of that body, its hash the single-round digest of its
\* header, and the mempool is empty
C22_NewYieldsGenesis ==
    last.op = "new" =>
        /\ Len(blockchain) = 1
        /\ blockchain[1].index = 0
        /\ blockchain[1].difficulty = <<0, 0>>
        /\ blockchain[1].prev_hash = ZeroHash
        /\ blockchain[1].nonce = 0
        /\ Len(blockchain[1].data) = 1
        /\ blockchain[1].data[1].inputs = <<>>
        /\ blockchain[1].data[1].outputs = <<>>
        /\ blockchain[1].data[1].additional_data = Some(last.arg)
        /\ blockchain[1].merkle_root = calc_merkle_root(blockchain[1].data)
        /\ blockchain[1].hash = block_sha256(blockchain[1])
        /\ tx_pool = <<>>

\* a chain is built from a message of two different bytes after the clock moved
C22_Witness ==
    /\ last.op = "new"
    /\ Len(last.arg) = 2
    /\ last.arg[1] # last.arg[2]
    /\ blockchain[1].timestamp > 0

-----------------------------------------------------------------------------
(* The target of a difficulty *)

\* the mantissas 0x123456 (test_target_threshold) and 0xA0B1C2, under every
\* first byte
DifficultyChoices ==
    {<<b0 * 256 + m[1], m[2] * 256 + m[3]>> :
        b0 \in 0..255, m \in {<<18, 52, 86>>, <<160, 177, 194>>}}

\* block.target_threshold() of a block of that difficulty
TargetThreshold ==
    /\ \E difficulty \in DifficultyChoices :
          last' = Call("target_threshold", "ok", blockchain, tx_pool,
                       [difficulty |-> difficulty,
                        target |-> target_threshold(difficulty)])
    /\ UNCHANGED <<blockchain, tx_pool, peer_chain, now, pending, profile, cancel,
                   attempts>>

NextTarget == TargetThreshold

TargetSpec == Init /\ [][NextTarget]_vars

\* C23: for the difficulty bytes b0 b1 b2 b3, byte 32 - (b0 - 3) - 1 of the
\* target is b3, the byte before it b2, the byte before that b1, every other
\* byte is zero, and a mantissa byte whose place is outside 0..31 is left out;
\* 0x20123456 gives 12 34 56 and 29 zero bytes, 0x1E123456 gives 00 00 12 34 56
\* and 27 zero bytes
C23_TargetThresholdBytes ==
    last.op = "target_threshold" =>
        LET b == to_be_bytes(last.arg.difficulty)
            target == last.arg.target
            low == 32 - (b[1] - 3) - 1
        IN  /\ DOMAIN target = 1..32
            /\ \A i \in 0..31 :
                  target[i + 1] = CASE i = low -> b[4]
                                    [] i = low - 1 -> b[3]
                                    [] i = low - 2 -> b[2]
                                    [] OTHER -> 0
            /\ last.arg.difficulty = <<8210, 13398>>
                  => target = <<18, 52, 86>> \o [i \in 1..29 |-> 0]
            /\ last.arg.difficulty = <<7698, 13398>>
                  => target = <<0, 0, 18, 52, 86>> \o [i \in 1..27 |-> 0]

\* the first byte 0x22 pushes two bytes of the mantissa out: the target is the
\* last byte of the mantissa and 31 zero bytes
C23_Witness ==
    /\ last.op = "target_threshold"
    /\ last.arg.difficulty = <<34 * 256 + 160, 177 * 256 + 194>>
    /\ last.arg.target = <<194>> \o [i \in 1..31 |-> 0]

-----------------------------------------------------------------------------
(* The merkle root of a body *)

\* the bodies: sequences of tx1 and tx2 of test_resolve_conflicts and of the
\* genesis transaction
BodyTransactions == {FakeTx(1), FakeTx(2), blockchain[1].data[1]}

\* block.calc_merkle_root() of a block of that body
CalcMerkleRoot ==
    /\ \E data \in SeqsUpTo(BodyTransactions, MaxBody) :
          last' = Call("calc_merkle_root", "ok", blockchain, tx_pool,
                       [data |-> data, root |-> calc_merkle_root(data)])
    /\ UNCHANGED <<blockchain, tx_pool, peer_chain, now, pending, profile, cancel,
                   attempts>>

NextMerkle == CalcMerkleRoot

MerkleSpec == Init /\ [][NextMerkle]_vars

\* the largest power of two below n, for n >= 2
RECURSIVE PowerBelow(_, _)
PowerBelow(n, k) == IF 2 * k < n THEN PowerBelow(n, 2 * k) ELSE k

\* the tree over the digests lo..hi of the leaves: a lone digest stands for
\* itself, more digests split after the largest power of two below their number
RECURSIVE TreeRoot(_, _, _)
TreeRoot(leaves, lo, hi) ==
    IF lo = hi THEN leaves[lo]
    ELSE LET k == PowerBelow(hi - lo + 1, 1)
         IN  Sha256(<<"bytes", <<TreeRoot(leaves, lo, lo + k - 1),
                                 TreeRoot(leaves, lo + k, hi)>>>>)

SwapAt(data, i, j) == [data EXCEPT ![i] = data[j], ![j] = data[i]]

\* C24: the merkle root of an empty body is zero; otherwise it is the root of
\* the tree whose leaves are the single-round digests of the transactions in
\* order, whose nodes are the digest of left || right, and where a lone
\* trailing node is carried up as it is; swapping two different transactions
\* changes the root
C24_MerkleRootOfBody ==
    last.op = "calc_merkle_root" =>
        LET data == last.arg.data
            leaves == [i \in DOMAIN data |-> transaction_sha256(data[i])]
        IN  /\ data = <<>> => last.arg.root = ZeroHash
            /\ data # <<>> => last.arg.root = TreeRoot(leaves, 1, Len(data))
            /\ \A i, j \in DOMAIN data :
                  data[i] # data[j]
                      => calc_merkle_root(SwapAt(data, i, j)) # last.arg.root

\* three different transactions: the third digest is carried up and paired
\* with the digest of the first two
C24_Witness ==
    /\ last.op = "calc_merkle_root"
    /\ Len(last.arg.data) = 3
    /\ Cardinality({last.arg.data[i] : i \in 1..3}) = 3
    /\ last.arg.root
          = Sha256(<<"bytes",
                     <<Sha256(<<"bytes", <<transaction_sha256(last.arg.data[1]),
                                           transaction_sha256(last.arg.data[2])>>>>),
                       transaction_sha256(last.arg.data[3])>>>>)

-----------------------------------------------------------------------------
(* The reward of a height *)

\* Blockchain::reward_algorithm(index)
RewardAlgorithm ==
    /\ \E index \in 0..MaxHeight :
          last' = Call("reward_algorithm",
                       IF reward_algorithm_panics(index) THEN "panic" ELSE "ok",
                       blockchain, tx_pool,
                       [index |-> index,
                        reward |-> IF reward_algorithm_panics(index) THEN <<>>
                                   ELSE <<reward_algorithm(index)>>])
    /\ UNCHANGED <<blockchain, tx_pool, peer_chain, now, pending, profile, cancel,
                   attempts>>

NextReward == RewardAlgorithm

RewardSpec == Init /\ [][NextReward]_vars

\* C25: reward(1) = 27, reward(9) = 18, reward(99) = 9, the reward does not
\* increase with the height from height 1 on, and reward_algorithm(0) returns
\* 0 instead of failing
C25_RewardCurve ==
    last.op = "reward_algorithm" =>
        /\ last.ret = "ok"
        /\ last.arg.index = 0 => last.arg.reward = <<0>>
        /\ last.arg.index = 1 => last.arg.reward = <<27>>
        /\ last.arg.index = 9 => last.arg.reward = <<18>>
        /\ last.arg.index = 99 => last.arg.reward = <<9>>
        /\ \A h \in 1..last.arg.index :
              last.arg.reward # <<>> => reward_algorithm(h) >= last.arg.reward[1]

-----------------------------------------------------------------------------
(* Properties of spent outputs *)

\* the transactions of block prev_block_index that the input names, by their
\* transaction_id or by their digest
Producers(chain, input) ==
    IF input.prev_block_index + 1 \notin DOMAIN chain THEN {}
    ELSE {t \in DOMAIN chain[input.prev_block_index + 1].data :
             input.prev_transaction_hash
                 \in {chain[input.prev_block_index + 1].data[t].transaction_id,
                      transaction_sha256(chain[input.prev_block_index + 1].data[t])}}

\* the two inputs name the same output of the same transaction of the chain
SameOutput(chain, a, b) ==
    /\ a.prev_block_index = b.prev_block_index
    /\ a.prev_output_index = b.prev_output_index
    /\ Producers(chain, a) \cap Producers(chain, b) # {}

\* a transaction of the chain has an input that names the output of input
SpentInChain(chain, input) ==
    \E b \in DOMAIN chain : \E t \in DOMAIN chain[b].data :
        \E k \in DOMAIN chain[b].data[t].inputs :
            SameOutput(chain, chain[b].data[t].inputs[k], input)

NamesOutputTwice(chain, tx) ==
    \E i, j \in DOMAIN tx.inputs : i < j /\ SameOutput(chain, tx.inputs[i], tx.inputs[j])

\* C26: verification returns false for a transaction with an input that names
\* an output already spent by a transaction of the chain, and for a
\* transaction that names the same output twice
C26_SpentInputsRefused ==
    last.op = "verify_transactions" =>
        LET tx == last.arg[1]
        IN  \/ \E i \in DOMAIN tx.inputs : SpentInChain(last.chain, tx.inputs[i])
            \/ NamesOutputTwice(last.chain, tx)
            => last.ret = "false"

-----------------------------------------------------------------------------
(* Properties of the position of a verified block *)

\* C27: verify_block returns true only for a block whose index is the index
\* of the tip plus one and whose prev_hash is the hash of the tip; for a block
\* of index 0 it returns false and does not fail
C27_OnlyNextBlockVerifies ==
    last.op = "receive_block" =>
        /\ last.ret = "true"
              => /\ last.arg[1].index = Last(last.chain).index + 1
                 /\ last.arg[1].prev_hash = Last(last.chain).hash
        /\ last.arg[1].index = 0 => last.ret = "false"

-----------------------------------------------------------------------------
(* Properties of the verification of a whole chain *)

\* every block after the genesis carries only its coinbase and a timestamp
\* not below the integer average of the timestamps of the blocks before it
BuiltByTheRules(chain) ==
    \A i \in 2..Len(chain) :
        /\ Len(chain[i].data) = 1
        /\ chain[i].index = i - 1
        /\ SumSeq(PrecedingTimestamps(chain, chain[i]))
              \div Len(PrecedingTimestamps(chain, chain[i])) <= chain[i].timestamp

\* C28: verify_chain returns true for the blocks of every chain that
\* Blockchain::new and then generate_new_block and add_block steps obeying the
\* timestamp rule produced, the genesis included, and returns false as soon
\* as one block fails verify_block with its own difficulty
C28_BuiltChainVerifies ==
    last.op = "verify_chain" =>
        /\ BuiltByTheRules(last.chain) => last.ret = "true"
        /\ (\E i \in DOMAIN last.chain :
               /\ verify_block(last.chain, last.chain[i],
                               last.chain[i].difficulty) = "false"
               /\ \A j \in 1..(i - 1) :
                     verify_block(last.chain, last.chain[j],
                                  last.chain[j].difficulty) = "true")
              => last.ret = "false"

-----------------------------------------------------------------------------
(* The proof-of-work search on a block built by hand, as test_mining runs   *)
(* it, one iteration of the loop at a time.  pending.block is `self`,       *)
(* last.arg holds the block as it was when the search began.                *)

\* the nonces the search begins with: 0 and its neighbours, and the last
\* values of the nonce
StartNonces == {0, 1, 2, NonceMax - 2, NonceMax - 1, NonceMax}

\* the iterations made since the search began
Iterations(start, block) ==
    IF block.nonce >= start.nonce THEN block.nonce - start.nonce
    ELSE (block.nonce - NonceMin) + (NonceMax - start.nonce) + 1

\* block.update_hash_and_nonce() begins
StartSearch ==
    /\ pending.verdict # "mining"
    /\ \E d \in {Difficulty1E, Difficulty20, Difficulty80}, n0 \in StartNonces,
          timestamp \in 0..MaxClock :
          LET block == [CraftedBlock(blockchain, 1, <<>>, timestamp, d)
                           EXCEPT !.nonce = n0]
          IN  /\ pending' = [some |-> FALSE, block |-> block, difficulty |-> d,
                             txs |-> <<>>, verdict |-> "mining"]
              /\ last' = Call("update_hash_and_nonce", "running", blockchain,
                              tx_pool, <<block>>)
    /\ UNCHANGED <<blockchain, tx_pool, peer_chain, now, profile, cancel, attempts>>

\* one test of `while valid_hash > target_threshold`.  `nonce += 1` at the
\* last value of the nonce panics in a build with overflow checks and wraps
\* to the first value in one without.
SearchStep ==
    /\ pending.verdict = "mining"
    /\ IF MeetsTarget(pending.block)
       THEN /\ pending' = [pending EXCEPT
                              !.block.hash = HashSha256(block_sha256(pending.block)),
                              !.some = TRUE,
                              !.verdict = "none"]
            /\ last' = [last EXCEPT !.ret = "returned"]
       ELSE /\ Iterations(last.arg[1], pending.block) < MaxNonce
            /\ IF pending.block.nonce = NonceMax
               THEN IF profile = "debug"
                    THEN /\ pending' = [pending EXCEPT !.verdict = "none"]
                         /\ last' = [last EXCEPT !.ret = "panic"]
                    ELSE /\ pending' = [pending EXCEPT !.block.nonce = NonceMin]
                         /\ UNCHANGED last
               ELSE /\ pending' = [pending EXCEPT
                                      !.block.nonce = pending.block.nonce + 1]
                    /\ UNCHANGED last
    /\ UNCHANGED <<blockchain, tx_pool, peer_chain, now, profile, cancel, attempts>>

NextSearch == StartSearch \/ SearchStep

SearchSpec == Init /\ [][NextSearch]_vars

\* C29: the search tries the nonces from the block's own upwards; it ends with
\* the smallest of them whose doubled digest meets the target, commits that
\* nonce and that digest and changes no other field; it never goes past the
\* last value of the nonce to the first, but stops there with a signal
C29_SearchFindsSmallestNonce ==
    last.op = "update_hash_and_nonce" =>
        LET start == last.arg[1]
        IN  /\ pending.block.nonce >= start.nonce
            /\ last.ret \in {"running", "returned", "panic", "no solution"}
            /\ last.ret = "returned"
                  => /\ MeetsTarget(pending.block)
                     /\ \A n \in start.nonce..(pending.block.nonce - 1) :
                           ~MeetsTarget([start EXCEPT !.nonce = n])
                     /\ pending.block
                           = [start EXCEPT
                                 !.nonce = pending.block.nonce,
                                 !.hash = HashSha256(block_sha256(pending.block))]

-----------------------------------------------------------------------------
(* Properties of the chain across add_block and resolve_conflicts *)

\* C30: across add_block and resolve_conflicts calls the chain is never empty,
\* its length never decreases and the hash of its first block never changes
C30_ChainGrowsFromItsGenesis ==
    /\ [](blockchain # <<>>)
    /\ [][/\ Len(blockchain') >= Len(blockchain)
          /\ blockchain'[1].hash = blockchain[1].hash]_vars

\* resolve_conflicts replaced a chain of several blocks by another chain of
\* the same length
C30_Witness ==
    /\ last.op = "resolve_conflicts"
    /\ last.ret = "true"
    /\ Len(last.chain) >= 2
    /\ Len(blockchain) = Len(last.chain)
    /\ blockchain # last.chain
    /\ blockchain[1].hash = last.chain[1].hash

====
